---- MODULE Spec2Model ----
(***************************************************************************)
(* LocationHelper (helpers/location_helper.py): resolution of the          *)
(* normalized location of an event or a team through the Google Maps       *)
(* place search, place details and geocode services, memoized in memcache. *)
(*                                                                         *)
(* Python strings are sequences of one-character strings, a dict is a      *)
(* function whose DOMAIN is its key set, None is the string "None".        *)
(* A similarity is the exact rational <<n, d>> of SequenceMatcher.ratio(); *)
(* a score pow(sim, 1.0/3) * 0.7^k is kept as the record [sim, k], so that *)
(* the code's comparisons (== 1, >, < 0.7) are decided exactly.            *)
(***************************************************************************)
EXTENDS Integers, Sequences, FiniteSets, TLC

None == "None"

(***************************************************************************)
(* Strings                                                                 *)
(***************************************************************************)

\* The characters of the model in ASCII order, which is the order sorted()
\* compares str values by.
CharOrder == <<" ", "&", ",", "-", "/", "A", "B", "a", "b", "c">>

Ord(c) == CHOOSE n \in 1..Len(CharOrder) : CharOrder[n] = c

IsSpace(c) == c = " "

\* str.lower()
LowerChar(c) == CASE c = "A" -> "a" [] c = "B" -> "b" [] OTHER -> c

Lower(s) == [n \in 1..Len(s) |-> LowerChar(s[n])]

\* str.strip()
RECURSIVE LStrip(_)
LStrip(s) == IF s # <<>> /\ IsSpace(Head(s)) THEN LStrip(Tail(s)) ELSE s

RECURSIVE RStrip(_)
RStrip(s) ==
    IF s # <<>> /\ IsSpace(s[Len(s)]) THEN RStrip(SubSeq(s, 1, Len(s) - 1)) ELSE s

Strip(s) == RStrip(LStrip(s))

\* re.split('\s+|,|-', s): a run of whitespace, one comma or one hyphen ends
\* the current token (which may be empty).
RECURSIVE re_split(_, _)
re_split(s, cur) ==
    IF s = <<>> THEN <<cur>>
    ELSE IF IsSpace(Head(s)) THEN <<cur>> \o re_split(LStrip(s), <<>>)
    ELSE IF Head(s) \in {",", "-"} THEN <<cur>> \o re_split(Tail(s), <<>>)
    ELSE re_split(Tail(s), Append(cur, Head(s)))

\* filter(lambda x: x, re.split('\s+|,|-', s))
Tokens(s) == SelectSeq(re_split(s, <<>>), LAMBDA w : w # <<>>)

\* a < b for two str values
RECURSIVE StrLess(_, _)
StrLess(a, b) ==
    IF b = <<>> THEN FALSE
    ELSE IF a = <<>> THEN TRUE
    ELSE IF Head(a) # Head(b) THEN Ord(Head(a)) < Ord(Head(b))
    ELSE StrLess(Tail(a), Tail(b))

\* sorted(words): insertion into an ascending list, equal words adjacent
RECURSIVE Insert(_, _)
Insert(w, ws) ==
    IF ws = <<>> THEN <<w>>
    ELSE IF StrLess(w, Head(ws)) THEN <<w>> \o ws
    ELSE <<Head(ws)>> \o Insert(w, Tail(ws))

RECURSIVE Sorted(_)
Sorted(ws) == IF ws = <<>> THEN <<>> ELSE Insert(Head(ws), Sorted(Tail(ws)))

\* sep.join(words)
RECURSIVE Join(_, _)
Join(sep, ws) ==
    IF ws = <<>> THEN <<>>
    ELSE IF Len(ws) = 1 THEN Head(ws)
    ELSE Head(ws) \o sep \o Join(sep, Tail(ws))

\* ''.join([w[0] if w else '' for w in words]).lower()
Acronym(ws) == Lower([n \in 1..Len(ws) |-> ws[n][1]])

(***************************************************************************)
(* difflib.SequenceMatcher(None, a, b).ratio()                             *)
(***************************************************************************)

\* a[i..i+k-1] = b[j..j+k-1]
BlockAt(a, b, i, j, k) == \A t \in 0..(k - 1) : a[i + t] = b[j + t]

\* find_longest_match(alo, ahi, blo, bhi) on the half-open, 1-based ranges
\* a[alo..ahi-1], b[blo..bhi-1]: the longest block, of those the one that
\* starts earliest in a, of those the one that starts earliest in b.
find_longest_match(a, b, alo, ahi, blo, bhi) ==
    LET blocks == {m \in (alo..(ahi - 1)) \X (blo..(bhi - 1)) \X (1..(ahi - alo)) :
                       /\ m[1] + m[3] <= ahi
                       /\ m[2] + m[3] <= bhi
                       /\ BlockAt(a, b, m[1], m[2], m[3])}
    IN  IF blocks = {} THEN <<alo, blo, 0>>
        ELSE CHOOSE m \in blocks :
                 \A o \in blocks :
                     \/ m[3] > o[3]
                     \/ m[3] = o[3] /\ m[1] < o[1]
                     \/ m[3] = o[3] /\ m[1] = o[1] /\ m[2] <= o[2]

\* sum of the sizes of get_matching_blocks(): the longest match, then the
\* same to its left and to its right
RECURSIVE matches(_, _, _, _, _, _)
matches(a, b, alo, ahi, blo, bhi) ==
    LET m == find_longest_match(a, b, alo, ahi, blo, bhi)
        i == m[1]
        j == m[2]
        k == m[3]
    IN  IF k = 0 THEN 0
        ELSE k + (IF alo < i /\ blo < j THEN matches(a, b, alo, i, blo, j) ELSE 0)
               + (IF i + k < ahi /\ j + k < bhi
                  THEN matches(a, b, i + k, ahi, j + k, bhi) ELSE 0)

RECURSIVE Gcd(_, _)
Gcd(x, y) == IF y = 0 THEN x ELSE Gcd(y, x % y)

\* the rational n/d in lowest terms
Rat(n, d) == LET g == Gcd(n, d) IN <<n \div g, d \div g>>

\* _calculate_ratio(matches, len(a) + len(b)): 2.0 * matches / length, 1.0
\* for two empty strings
ratio(a, b) ==
    LET length == Len(a) + Len(b)
    IN  IF length = 0 THEN <<1, 1>>
        ELSE Rat(2 * matches(a, b, 1, Len(a) + 1, 1, Len(b) + 1), length)

RatLess(x, y) == x[1] * y[2] < y[1] * x[2]

\* max([...]) of a non-empty list of ratios: the first maximal element
RECURSIVE RatMax(_)
RatMax(rs) ==
    IF Len(rs) = 1 THEN rs[1]
    ELSE LET rest == RatMax(Tail(rs))
         IN  IF RatLess(Head(rs), rest) THEN rest ELSE Head(rs)

\* the tokens compared in the order they stand in
similarity_unsorted(a, b, a_split, b_split) ==
    LET pairs == <<<<a, b>>,
                   <<Join(<<" ">>, a_split), Join(<<" ">>, b_split)>>,
                   <<Acronym(a_split), b>>,
                   <<a, Acronym(b_split)>>>>
    IN  RatMax([n \in 1..4 |-> ratio(pairs[n][1], pairs[n][2])])

\* lines 40-50: the four SequenceMatchers and the max of their ratios
similarity_of(a, b, a_split, b_split) ==
    LET pairs == <<<<a, b>>,
                   <<Join(<<" ">>, Sorted(a_split)), Join(<<" ">>, Sorted(b_split))>>,
                   <<Acronym(a_split), b>>,
                   <<a, Acronym(b_split)>>>>
    IN  RatMax([n \in 1..4 |-> ratio(pairs[n][1], pairs[n][2])])

\* lines 33-34: a_split, b_split
similarity_split(a, b) == similarity_of(a, b, Tokens(a), Tokens(b))

\* get_similarity(a, b), lines 30-31: a.lower().strip(), b.lower().strip()
get_similarity(a0, b0) == similarity_split(Strip(Lower(a0)), Strip(Lower(b0)))

(***************************************************************************)
(* Scores.  [sim |-> <<n, d>>, k |-> k] is pow(n/d, 1.0/3) * 0.7^k, so its *)
(* cube is (n/d) * (343/1000)^k.                                           *)
(***************************************************************************)

\* l * 343^e < r * 1000^e, for l, r >= 0
RECURSIVE ScaledLess(_, _, _)
ScaledLess(l, r, e) ==
    IF e = 0 THEN l < r
    ELSE IF r = 0 THEN FALSE
    ELSE IF l * 343 < r * 1000 THEN TRUE
    ELSE ScaledLess(l * 343, r * 1000, e - 1)

\* l * 1000^e < r * 343^e, for l, r >= 0
RECURSIVE ScaledMore(_, _, _)
ScaledMore(l, r, e) ==
    IF e = 0 THEN l < r
    ELSE IF l = 0 THEN r > 0
    ELSE IF l * 1000 >= r * 343 THEN FALSE
    ELSE ScaledMore(l * 1000, r * 343, e - 1)

\* x < y
ScoreLess(x, y) ==
    LET l == x.sim[1] * y.sim[2]
        r == y.sim[1] * x.sim[2]
    IN  IF x.k >= y.k THEN ScaledLess(l, r, x.k - y.k) ELSE ScaledMore(l, r, y.k - x.k)

ScoreEq(x, y) == ~ScoreLess(x, y) /\ ~ScoreLess(y, x)

\* the literals 0, 1 and 0.7
Score0 == [sim |-> <<0, 1>>, k |-> 0]

Score1 == [sim |-> <<1, 1>>, k |-> 0]

Score07 == [sim |-> <<1, 1>>, k |-> 1]

\* pow(sim, 1.0/3)
CubeRoot(sim) == [sim |-> sim, k |-> 0]

\* a score that the rank does not lower
Discount_never(score, e) == score

\* score * pow(0.7, e)
Discount(score, e) == [score EXCEPT !.k = @ + e]

(***************************************************************************)
(* Python values                                                           *)
(***************************************************************************)

\* {}
EmptyDict == [x \in {} |-> None]

\* d[key] = value
Put(d, key, value) == [x \in DOMAIN d \cup {key} |-> IF x = key THEN value ELSE d[x]]

\* d.get(key)
Get(d, key) == IF key \in DOMAIN d THEN d[key] ELSE None

\* seq[:n]
Take(seq, n) == SubSeq(seq, 1, IF Len(seq) < n THEN Len(seq) ELSE n)

\* x is None (decided on the printed value: a str, a list and a dict are
\* values of different kinds, which = cannot compare)
IsNone(x) == ToString(x) = ToString(None)

\* bool(x) of a str, a list, a dict or None
Truthy(x) == ~IsNone(x) /\ DOMAIN x # {}

\* '{}'.format(x) of a str or None
Format(x) == IF IsNone(x) THEN <<"N", "o", "n", "e">> ELSE x

\* s.split(sep) for a one-character separator
RECURSIVE str_split(_, _, _)
str_split(s, sep, cur) ==
    IF s = <<>> THEN <<cur>>
    ELSE IF Head(s) = sep THEN <<cur>> \o str_split(Tail(s), sep, <<>>)
    ELSE str_split(Tail(s), sep, Append(cur, Head(s)))

\* s.count(c)
Count(s, c) == Cardinality({n \in 1..Len(s) : s[n] = c})

\* characters outside ASCII
NonAscii == {"U+00E9"}

\* query.encode('ascii', 'ignore')
encode_ascii_ignore(s) == SelectSeq(s, LAMBDA c : c \notin NonAscii)

(***************************************************************************)
(* State                                                                   *)
(***************************************************************************)
VARIABLES
    sitevar,              \* Sitevar.get_by_id("google.secrets"): None or its contents
    CONFIG_memcache,      \* tba_config.CONFIG['memcache']
    GOOGLE_API_KEY,       \* LocationHelper.GOOGLE_API_KEY
    memcache,             \* memcache: cache key -> stored value
    normalized_location,  \* entity id -> Location written by an update, or None
    location_index,       \* entity ids handed to SearchHelper.add_*_location_index
    op,                   \* the update in progress or last finished, and how it ended
    pc,                   \* position of the update in progress
    frame,                \* local variables of the update in progress
    futures,              \* the two place-search tasklets of the current event query
    requests,             \* remote requests issued by the last step
    calls,                \* client calls that returned in the last step
    fetched,              \* answers the provider has given to place-search requests
    completed,            \* signatures of the client calls that have returned
    key_obtained,         \* the operations that have read a credential from the sitevar
    called                \* the last direct call of a function of the helper

vars == <<pc, op, frame, futures, requests, calls, fetched, completed, key_obtained,
          location_index, normalized_location, memcache, GOOGLE_API_KEY, sitevar,
          CONFIG_memcache, called>>

(***************************************************************************)
(* The remote services: what urlfetch can answer                           *)
(***************************************************************************)

\* urlfetch raised (deadline, download error)
FetchError == [error |-> TRUE, status_code |-> 0, valid_json |-> FALSE, body |-> EmptyDict]

\* a response with a status code other than 200
HttpError == [error |-> FALSE, status_code |-> 500, valid_json |-> FALSE, body |-> EmptyDict]

\* a 200 response whose content json.loads rejects
NotJson == [error |-> FALSE, status_code |-> 200, valid_json |-> FALSE, body |-> EmptyDict]

\* a 200 response whose content decodes to the dict body
Http200(body) == [error |-> FALSE, status_code |-> 200, valid_json |-> TRUE, body |-> body]

Failures ==
    {FetchError, HttpError, NotJson,
     Http200([status |-> "ZERO_RESULTS", results |-> <<>>]),
     Http200([status |-> "OVER_QUERY_LIMIT", results |-> <<>>])}

(***************************************************************************)
(* memcache                                                                *)
(***************************************************************************)

\* memcache.get(key): the stored value, None on a miss (and a stored None is
\* a stored value)
memcache_get(mc, key) == IF key \in DOMAIN mc THEN mc[key] ELSE None

\* memcache.set(key, value)
memcache_set(mc, key, value) == Put(mc, key, value)

(***************************************************************************)
(* GeoServiceClient: google_maps_placesearch_async,                        *)
(* google_maps_place_details_async, google_maps_geocode_async.             *)
(* The client state cs = [memcache, GOOGLE_API_KEY, requests, calls,       *)
(* fetched, completed, key_obtained] is threaded through the calls of one  *)
(* step; a call yields [ret, raised, cs].                                  *)
(***************************************************************************)

\* a check that lets a call without a credential go on
api_key_check_lenient(key) ==
    IF IsNone(key)
    THEN [ok |-> TRUE, key |-> IF IsNone(sitevar) THEN key ELSE sitevar.api_key,
          read |-> TRUE]
    ELSE [ok |-> TRUE, key |-> key, read |-> FALSE]

\* lines 340-346 and 399-405: if not cls.GOOGLE_API_KEY, read the sitevar;
\* ok is FALSE when the function returns its empty value there
api_key_check(key) ==
    IF IsNone(key)
    THEN IF ~IsNone(sitevar)
         THEN [ok |-> TRUE, key |-> sitevar.api_key, read |-> TRUE]
         ELSE [ok |-> FALSE, key |-> key, read |-> TRUE]
    ELSE [ok |-> TRUE, key |-> key, read |-> FALSE]

\* a credential that is read and not kept
api_key_store_none(chk) == None

\* lines 343 and 402: cls.GOOGLE_API_KEY = GOOGLE_SECRETS.contents['api_key']
api_key_store(chk) == chk.key

\* the record of a call, as it stands when the call starts (resp: the answer
\* to the request of a place search)
NewCall(cs, name, args) ==
    [op |-> name, args |-> args, ret |-> None, raised |-> None,
     remote |-> FALSE, resp |-> None, read_sitevar |-> FALSE,
     key_before |-> cs.GOOGLE_API_KEY,
     obtained_before |-> cs.key_obtained,
     completed_before |-> <<name, args>> \in cs.completed]

\* the call returns (or raises): it is logged and its signature remembered
Return(cs, call) ==
    [ret |-> call.ret, raised |-> call.raised,
     cs |-> [cs EXCEPT !.calls = Append(@, call),
                       !.completed = @ \cup {<<call.op, call.args>>}]]

\* lines 367-384, the body of try: what it leaves in results and the
\* exception it ends with.  Line 384 names search_dict, which the branch of a
\* non-200 response never assigned.
placesearch_try(resp) ==
    IF resp.error THEN [results |-> None, exc |-> "DownloadError"]
    ELSE IF resp.status_code = 200
    THEN IF ~resp.valid_json THEN [results |-> None, exc |-> "ValueError"]
         ELSE IF resp.body.status = "ZERO_RESULTS" THEN [results |-> None, exc |-> None]
         ELSE IF resp.body.status = "OK"
         THEN [results |-> resp.body.results, exc |-> None]
         ELSE [results |-> None, exc |-> None]
    ELSE [results |-> None, exc |-> "UnboundLocalError"]

\* a try without its except clause
placesearch_except_none(t) == t

\* lines 385-387: except Exception, e: the exception is logged and ends here
placesearch_except(t) == [t EXCEPT !.exc = None]

\* a cache key that leaves out the kind of search
placesearch_cache_key_shared(search_type, query) == <<"google_maps_", query>>

\* cache_key = u'google_maps_{}:{}'.format(search_type, query)
placesearch_cache_key(search_type, query) == <<"google_maps_", search_type, query>>

\* google_maps_placesearch_async up to its yield (lines 340-370): the tasklet
\* either returns at once (done) or has issued its urlfetch and is pending
placesearch_begin(cs, query0, lat_lng, textsearch) ==
    LET search_type == IF textsearch THEN "textsearch" ELSE "nearbysearch"
        chk == api_key_check(cs.GOOGLE_API_KEY)
        call == [NewCall(cs, search_type, <<Format(query0), lat_lng>>) EXCEPT
                    !.read_sitevar = chk.read, !.ret = <<>>]
        cs1 == [cs EXCEPT !.GOOGLE_API_KEY = api_key_store(chk),
                          !.key_obtained =
                              IF chk.read /\ chk.ok THEN @ \cup {search_type} ELSE @]
        query == encode_ascii_ignore(query0)
        cache_key == placesearch_cache_key(search_type, query)
        results == memcache_get(cs1.memcache, cache_key)
        request == [op |-> search_type, key |-> chk.key, location |-> lat_lng,
                    radius |-> 25000, text |-> query]
    IN  IF ~chk.ok THEN [done |-> TRUE, out |-> Return(cs1, call)]
        ELSE IF ~Truthy(query0) THEN [done |-> TRUE, out |-> Return(cs1, call)]
        ELSE IF ~IsNone(results)
        THEN [done |-> TRUE,
              out |-> Return(cs1, [call EXCEPT
                          !.ret = IF Truthy(results) THEN results ELSE <<>>])]
        ELSE [done |-> FALSE,
              cs |-> [cs1 EXCEPT !.requests = Append(@, request)],
              call |-> [call EXCEPT !.remote = TRUE],
              cache_key |-> cache_key,
              request |-> request]

\* google_maps_placesearch_async from its yield on (lines 370-391), resumed
\* with the response resp of the urlfetch that pend issued
placesearch_resume(cs, pend, resp) ==
    LET t == placesearch_except(placesearch_try(resp))
        value == IF Truthy(t.results) THEN t.results ELSE <<>>
        call == [pend.call EXCEPT !.resp = resp, !.ret = value, !.raised = t.exc]
        answer == [op |-> pend.request.op, text |-> pend.request.text,
                   location |-> pend.request.location, results |-> value]
    IN  IF IsNone(t.exc)
        THEN Return([cs EXCEPT !.memcache = memcache_set(@, pend.cache_key, value),
                               !.fetched = @ \cup {answer}], call)
        ELSE Return(cs, call)

\* google_maps_placesearch_async(...).get_result()
search_result(b, resp) ==
    IF b.done THEN b.out ELSE placesearch_resume(b.cs, b, resp)

placesearch(cs, query0, lat_lng, textsearch, resp) ==
    search_result(placesearch_begin(cs, query0, lat_lng, textsearch), resp)

\* lines 415-431, the body of try of place details
place_details_try(resp) ==
    IF resp.error THEN [result |-> None, exc |-> "DownloadError"]
    ELSE IF resp.status_code = 200
    THEN IF ~resp.valid_json THEN [result |-> None, exc |-> "ValueError"]
         ELSE IF resp.body.status = "ZERO_RESULTS" THEN [result |-> None, exc |-> None]
         ELSE IF resp.body.status = "OK"
         THEN [result |-> resp.body.result, exc |-> None]
         ELSE [result |-> None, exc |-> None]
    ELSE [result |-> None, exc |-> None]

\* lines 432-434: except Exception, e
place_details_except(t) == [t EXCEPT !.exc = None]

\* google_maps_place_details_async(place_id).get_result()
place_details(cs, place_id, resp) ==
    LET chk == api_key_check(cs.GOOGLE_API_KEY)
        call == [NewCall(cs, "place_details", <<place_id>>) EXCEPT
                    !.read_sitevar = chk.read]
        cs1 == [cs EXCEPT !.GOOGLE_API_KEY = api_key_store(chk),
                          !.key_obtained =
                              IF chk.read /\ chk.ok THEN @ \cup {"place_details"} ELSE @]
        cache_key == <<"google_maps_place_details", place_id>>
        result == memcache_get(cs1.memcache, cache_key)
        request == [op |-> "place_details", key |-> chk.key, placeid |-> place_id]
        t == place_details_except(place_details_try(resp))
        cs2 == [cs1 EXCEPT !.requests = Append(@, request)]
        cs3 == IF CONFIG_memcache
               THEN [cs2 EXCEPT !.memcache = memcache_set(@, cache_key, t.result)]
               ELSE cs2
    IN  IF ~chk.ok THEN Return(cs1, call)
        ELSE IF ~IsNone(result) THEN Return(cs1, [call EXCEPT !.ret = result])
        ELSE IF ~IsNone(t.exc)
        THEN Return(cs2, [call EXCEPT !.remote = TRUE, !.raised = t.exc])
        ELSE Return(cs3, [call EXCEPT !.remote = TRUE, !.ret = t.result])

\* lines 476-488, the body of try of geocode
geocode_try(resp) ==
    IF resp.error THEN [results |-> None, exc |-> "DownloadError"]
    ELSE IF resp.status_code = 200
    THEN IF ~resp.valid_json THEN [results |-> None, exc |-> "ValueError"]
         ELSE IF resp.body.status = "ZERO_RESULTS" THEN [results |-> None, exc |-> None]
         ELSE IF resp.body.status = "OK"
         THEN [results |-> resp.body.results, exc |-> None]
         ELSE [results |-> None, exc |-> None]
    ELSE [results |-> None, exc |-> None]

\* a try without its except clause
geocode_except_none(t) == t

\* lines 489-491: except Exception, e
geocode_except(t) == [t EXCEPT !.exc = None]

\* google_maps_geocode_async(location).get_result()
geocode(cs, location, resp) ==
    LET call == [NewCall(cs, "geocode", <<Format(location)>>) EXCEPT !.ret = <<>>]
        cache_key == <<"google_maps_geocode", Format(location)>>
        results == memcache_get(cs.memcache, cache_key)
        google_api_key == IF IsNone(sitevar) THEN None ELSE sitevar.api_key
        request == [op |-> "geocode", key |-> google_api_key, address |-> Format(location),
                    sensor |-> "false"]
        t == geocode_except(geocode_try(resp))
        value == IF Truthy(t.results) THEN t.results ELSE <<>>
        cs1 == [cs EXCEPT !.requests = Append(@, request),
                          !.key_obtained =
                              IF IsNone(sitevar) THEN @ ELSE @ \cup {"geocode"}]
        fetch == [call EXCEPT !.remote = TRUE, !.read_sitevar = TRUE]
    IN  IF ~IsNone(results)
        THEN Return(cs, [call EXCEPT !.ret = IF Truthy(results) THEN results ELSE <<>>])
        ELSE IF ~Truthy(location) THEN Return(cs, call)
        ELSE IF ~IsNone(t.exc) THEN Return(cs1, [fetch EXCEPT !.raised = t.exc])
        ELSE Return([cs1 EXCEPT !.memcache = memcache_set(@, cache_key, value)],
                    [fetch EXCEPT !.ret = value])

\* get_lat_lng(location): yields [ret, raised, cs], ret a pair or None
lat_lng_of(g) ==
    IF ~IsNone(g.raised) THEN g
    ELSE IF Truthy(g.ret)
    THEN [g EXCEPT !.ret = <<g.ret[1].geometry.location.lat,
                             g.ret[1].geometry.location.lng>>]
    ELSE [g EXCEPT !.ret = None]

get_lat_lng(cs, location, resp) == lat_lng_of(geocode(cs, location, resp))

(***************************************************************************)
(* LocationRecordBuilder: construct_location_info_async                    *)
(***************************************************************************)

\* lines 306-320: one turn of the loop over address_components;
\* acc = [location_info, has_city]
address_component(acc, component) ==
    LET li == acc.location_info
    IN  IF "street_number" \in component.types
        THEN [acc EXCEPT !.location_info = Put(li, "street_number", component.long_name)]
        ELSE IF "route" \in component.types
        THEN [acc EXCEPT !.location_info = Put(li, "street", component.long_name)]
        ELSE IF "locality" \in component.types
        THEN [location_info |-> Put(li, "city", component.long_name), has_city |-> TRUE]
        ELSE IF "administrative_area_level_1" \in component.types
        THEN [acc EXCEPT !.location_info =
                  Put(Put(li, "state_prov", component.long_name),
                      "state_prov_short", component.short_name)]
        ELSE IF "country" \in component.types
        THEN [acc EXCEPT !.location_info =
                  Put(Put(li, "country", component.long_name),
                      "country_short", component.short_name)]
        ELSE IF "postal_code" \in component.types
        THEN [acc EXCEPT !.location_info = Put(li, "postal_code", component.long_name)]
        ELSE acc

\* line 305: for component in place_details_result['address_components']
RECURSIVE address_components(_, _)
address_components(acc, components) ==
    IF components = <<>> THEN acc
    ELSE address_components(address_component(acc, Head(components)), Tail(components))

\* a record left without a city when no locality was found
no_city_left(acc) == acc.location_info

\* lines 322-324: the special case for when there is no city
no_city(acc) ==
    IF ~acc.has_city /\ "state_prov" \in DOMAIN acc.location_info
    THEN Put(acc.location_info, "city", acc.location_info["state_prov"])
    ELSE acc.location_info

\* lines 303-329: the fields taken from a place details result
with_place_details(location_info, place_details_result) ==
    LET acc == address_components([location_info |-> location_info, has_city |-> FALSE],
                                  place_details_result.address_components)
        li1 == no_city(acc)
        li2 == Put(li1, "formatted_address", place_details_result.formatted_address)
    IN  Put(li2, "place_details", place_details_result)

\* lines 295-301: the fields taken from the search or geocode result
coarse_location_info(gmaps_result) ==
    [place_id |-> gmaps_result.place_id,
     lat |-> gmaps_result.geometry.location.lat,
     lng |-> gmaps_result.geometry.location.lng,
     name |-> Get(gmaps_result, "name"),
     types |-> gmaps_result.types]

\* lines 302-331: d is what google_maps_place_details_async yielded
location_info_of(location_info, d) ==
    IF ~IsNone(d.raised) THEN d
    ELSE IF Truthy(d.ret)
    THEN [d EXCEPT !.ret = with_place_details(location_info, d.ret)]
    ELSE [d EXCEPT !.ret = location_info]

\* construct_location_info_async(gmaps_result).get_result()
construct_location_info(cs, gmaps_result, resp) ==
    location_info_of(coarse_location_info(gmaps_result),
                     place_details(cs, gmaps_result.place_id, resp))

(***************************************************************************)
(* CandidateScorer                                                         *)
(***************************************************************************)

\* a scorer that does not look at the type tags
score_untyped(query_name, location_info) ==
    IF IsNone(location_info["name"])
    THEN [ret |-> Score0, raised |-> "AttributeError"]
    ELSE IF "formatted_address" \notin DOMAIN location_info
    THEN [ret |-> Score0, raised |-> "KeyError"]
    ELSE [ret |-> CubeRoot(RatMax(
                     <<get_similarity(query_name, location_info["name"]),
                       get_similarity(query_name, location_info["formatted_address"])>>)),
          raised |-> None]

\* compute_event_location_score(query_name, location_info): [ret, raised].
\* location_info['name'] is None when the result had no name, and
\* location_info has no 'formatted_address' when no place details were found.
compute_event_location_score(query_name, location_info) ==
    IF {"point_of_interest", "premise"} \cap Get(location_info, "types") # {}
    THEN IF IsNone(location_info["name"])
         THEN [ret |-> Score0, raised |-> "AttributeError"]
         ELSE IF "formatted_address" \notin DOMAIN location_info
         THEN [ret |-> Score0, raised |-> "KeyError"]
         ELSE [ret |-> CubeRoot(RatMax(
                          <<get_similarity(query_name, location_info["name"]),
                            get_similarity(query_name, location_info["formatted_address"])>>)),
               raised |-> None]
    ELSE [ret |-> Score0, raised |-> None]

\* compute_team_location_score(query_name, location_info): [ret, raised]
compute_team_location_score(query_name, location_info) ==
    IF IsNone(location_info["name"])
    THEN [ret |-> Score0, raised |-> "AttributeError"]
    ELSE LET score == CubeRoot(get_similarity(query_name, location_info["name"]))
         IN  IF {"school", "university"} \cap Get(location_info, "types") = {}
             THEN [ret |-> Discount(score, 1), raised |-> None]
             ELSE [ret |-> score, raised |-> None]

(***************************************************************************)
(* QueryGenerator                                                          *)
(***************************************************************************)

\* seq[n:]
Drop(seq, n) == SubSeq(seq, n + 1, Len(seq))

\* lines 104-114: possible_queries of an event
event_possible_queries(event) ==
    LET venue == IF Truthy(event.venue) THEN <<event.venue>> ELSE <<>>
        split_address == str_split(event.venue_address, "\n", <<>>)
    IN  IF Truthy(event.venue_address)
        THEN venue \o <<Join(<<" ">>, Drop(split_address, 1)),
                        Join(<<" ">>, Drop(split_address, 2))>>
        ELSE venue

MAX_SPLIT == 3

\* a fragment with fewer than MAX_SPLIT of each delimiter
few_delimiters(w) == Count(w, "&") < MAX_SPLIT /\ Count(w, "/") < MAX_SPLIT

\* x in possible_names
InSeq(x, seq) == \E n \in 1..Len(seq) : seq[n] = x

\* if w not in possible_names and w.count('&') < MAX_SPLIT and
\* w.count('/') < MAX_SPLIT: possible_names.append(w)
add_name(possible_names, w) ==
    IF ~InSeq(w, possible_names) /\ few_delimiters(w)
    THEN Append(possible_names, w) ELSE possible_names

\* lines 241-252: split1[-1], split2[-1], split1[0], split2[0], in this order
names_of(split1, split2) ==
    LET ws == <<split1[Len(split1)], split2[Len(split2)], split1[1], split2[1]>>
        names[n \in 0..4] == IF n = 0 THEN <<>> ELSE add_name(names[n - 1], ws[n])
    IN  names[4]

\* lines 234-252: possible_names of a team
team_possible_names(team) ==
    IF Truthy(team.name)
    THEN names_of(str_split(team.name, "&", <<>>), str_split(team.name, "/", <<>>))
    ELSE <<>>

(***************************************************************************)
(* The entities and the provider's data                                    *)
(***************************************************************************)

\* updates run in one behaviour
MaxUpdates == 2

\* events: ev0 has no free-text location
Events ==
    <<[key |-> "ev0", location |-> None, venue |-> <<"a", "/", "a">>, venue_address |-> None],
      [key |-> "ev1", location |-> <<"a">>, venue |-> <<"a", "/", "a">>, venue_address |-> None]>>

\* teams: frc0 has an empty free-text location
Teams ==
    <<[key |-> "frc0", location |-> <<>>, name |-> <<"a", "/", "a">>,
       city |-> None, country |-> None],
      [key |-> "frc1", location |-> <<"b">>, name |-> <<"a", "/", "a">>,
       city |-> <<"b">>, country |-> <<"c">>]>>

Keys == {Events[n].key : n \in 1..Len(Events)} \cup {Teams[n].key : n \in 1..Len(Teams)}

\* what a place search can find
Places ==
    <<[place_id |-> "pA", name |-> <<"a", "/", "a">>,
       types |-> {"point_of_interest", "school"},
       geometry |-> [location |-> [lat |-> 1, lng |-> 1]]],
      [place_id |-> "pB", name |-> <<"a", "c">>,
       types |-> {"establishment"},
       geometry |-> [location |-> [lat |-> 2, lng |-> 2]]]>>

\* result lists: some of the places in some order, none twice
ResultLists ==
    LET ix == UNION {[1..n -> 1..Len(Places)] : n \in 1..Len(Places)}
    IN  {[n \in DOMAIN l |-> Places[l[n]]] :
             l \in {m \in ix : \A x, y \in DOMAIN m : x # y => m[x] # m[y]}}

\* the geocode result of an address
GeocodeResult(location) ==
    LET n == CASE location = <<"a">> -> 1 [] location = <<"b">> -> 2 [] OTHER -> 3
    IN  [place_id |-> <<"gA", "gB", "gC">>[n],
         types |-> {"locality", "political"},
         geometry |-> [location |-> [lat |-> n, lng |-> n]]]

\* the place details of a place id
PlaceDetails(place_id) ==
    IF place_id = "pA"
    THEN [formatted_address |-> <<"a", "b", ",", " ", "c">>,
          address_components |->
              <<[types |-> {"locality", "political"},
                 long_name |-> <<"c">>, short_name |-> <<"c">>],
                [types |-> {"administrative_area_level_1", "political"},
                 long_name |-> <<"b", "b">>, short_name |-> <<"B">>]>>]
    ELSE [formatted_address |-> <<"b", "b">>,
          address_components |->
              <<[types |-> {"administrative_area_level_1", "political"},
                 long_name |-> <<"b", "b">>, short_name |-> <<"B">>],
                [types |-> {"country", "political"},
                 long_name |-> <<"c", "c">>, short_name |-> <<"C">>]>>]

\* what the services can answer to a request
SearchAnswers ==
    Failures \cup {Http200([status |-> "OK", results |-> l]) : l \in ResultLists}

DetailsAnswers(place_id) ==
    Failures \cup {Http200([status |-> "OK", result |-> PlaceDetails(place_id)])}

\* a less relevant result, which the provider lists after the best match
GeocodeOther ==
    [place_id |-> "gZ",
     types |-> {"political"},
     geometry |-> [location |-> [lat |-> 9, lng |-> 9]]]

GeocodeAnswers(location) ==
    Failures \cup {Http200([status |-> "OK",
                            results |-> <<GeocodeResult(location), GeocodeOther>>])}

(***************************************************************************)
(* LocationResolver: update_event_location, update_team_location           *)
(***************************************************************************)

\* the client state at the start of a step
CS ==
    [memcache |-> memcache, GOOGLE_API_KEY |-> GOOGLE_API_KEY, requests |-> <<>>,
     calls |-> <<>>, fetched |-> fetched, completed |-> completed,
     key_obtained |-> key_obtained]

\* the client state at the end of a step
Commit(cs) ==
    /\ memcache' = cs.memcache
    /\ GOOGLE_API_KEY' = cs.GOOGLE_API_KEY
    /\ requests' = cs.requests
    /\ calls' = cs.calls
    /\ fetched' = cs.fetched
    /\ completed' = cs.completed
    /\ key_obtained' = cs.key_obtained

\* some place search or geocode of calls returned results
AnyResult(cs) ==
    \E n \in 1..Len(cs.calls) :
        cs.calls[n].op # "place_details" /\ Truthy(cs.calls[n].ret)

\* no update in progress
NoFrame ==
    [entity |-> None, possible_queries |-> <<>>, lat_lng |-> None, j |-> 0, f |-> 0,
     i |-> 0, places |-> <<>>, textsearch |-> FALSE,
     best_score |-> Score0, best_location_info |-> EmptyDict,
     ret |-> [location_info |-> EmptyDict, score |-> Score0],
     location_info |-> EmptyDict, score |-> Score0, any_result |-> FALSE,
     scored |-> <<>>]

NoFuture == [state |-> "none"]

\* no function of the helper has been called directly
NoCall == [name |-> None, args |-> <<>>, done |-> FALSE, ret |-> None, raised |-> None]

NoOp == [n |-> 0, name |-> None, key |-> None, status |-> "none", raised |-> None,
         location_info |-> EmptyDict, score |-> Score0, any_result |-> FALSE]

\* Location(...) of lines 76-94 and 205-223
Location(location_info) ==
    [name |-> Get(location_info, "name"),
     formatted_address |-> Get(location_info, "formatted_address"),
     lat_lng |-> IF "lat" \in DOMAIN location_info /\ "lng" \in DOMAIN location_info
                 THEN <<location_info["lat"], location_info["lng"]>> ELSE None,
     street_number |-> Get(location_info, "street_number"),
     street |-> Get(location_info, "street"),
     city |-> Get(location_info, "city"),
     state_prov |-> Get(location_info, "state_prov"),
     state_prov_short |-> Get(location_info, "state_prov_short"),
     country |-> Get(location_info, "country"),
     country_short |-> Get(location_info, "country_short"),
     postal_code |-> Get(location_info, "postal_code"),
     place_id |-> Get(location_info, "place_id"),
     place_details |-> Get(location_info, "place_details")]

\* a fresh instance: nothing cached, nothing written, no update in progress
Fresh ==
    /\ GOOGLE_API_KEY = None
    /\ memcache = EmptyDict
    /\ normalized_location = [k \in Keys |-> None]
    /\ location_index = {}
    /\ op = NoOp
    /\ pc = "idle"
    /\ frame = NoFrame
    /\ futures = <<NoFuture, NoFuture>>
    /\ requests = <<>>
    /\ calls = <<>>
    /\ fetched = {}
    /\ completed = {}
    /\ key_obtained = {}

Init ==
    /\ sitevar = None \/ sitevar = [api_key |-> "key"]
    /\ CONFIG_memcache \in BOOLEAN
    /\ Fresh
    /\ called = NoCall

\* an update that does not look at the location
has_location_always(entity) == TRUE

\* lines 54 and 161: if not event.location / if not team.location
has_location(entity) == Truthy(entity.location)

\* an update starts
Start(name, entity) ==
    [n |-> op.n + 1, name |-> name, key |-> entity.key, status |-> "running",
     raised |-> None, location_info |-> EmptyDict, score |-> Score0,
     any_result |-> FALSE]

\* an exception leaves the update o
Raise(o, exc) ==
    /\ op' = [o EXCEPT !.status = "raised", !.raised = exc,
                       !.any_result = @ \/ frame.any_result]
    /\ pc' = "idle"
    /\ frame' = NoFrame
    /\ UNCHANGED <<normalized_location, location_index>>

\* the tasklet a place search started: done, or waiting for its urlfetch
Future(b) ==
    IF b.done
    THEN [state |-> "done", ret |-> b.out.ret, raised |-> b.out.raised]
    ELSE [state |-> "pending", call |-> b.call, cache_key |-> b.cache_key,
          request |-> b.request]

\* a loop without its early return
perfect_never(score) == FALSE

\* the early return of lines 135-136 and 269-270: if score == 1
perfect(score) == ScoreEq(score, Score1)

\* an update without the threshold
trusted_always(location_info, score) == location_info

\* lines 180-183: nothing below the threshold is trusted
trusted(location_info, score) ==
    IF ScoreLess(score, Score07) THEN EmptyDict ELSE location_info

\* '{} {}'.format(team.city if team.city else '', team.country if team.country else '')
city_country(team) ==
    (IF Truthy(team.city) THEN team.city ELSE <<>>) \o <<" ">>
        \o (IF Truthy(team.country) THEN team.country ELSE <<>>)

\* The answers a step quantifies over: those of the service when the call
\* issues a request, one placeholder when it returns without one.
geocode_answers(cs, location) ==
    IF Len(geocode(cs, location, FetchError).cs.requests) > Len(cs.requests)
    THEN GeocodeAnswers(location) ELSE {FetchError}

details_answers(cs, place_id) ==
    IF Len(place_details(cs, place_id, FetchError).cs.requests) > Len(cs.requests)
    THEN DetailsAnswers(place_id) ELSE {FetchError}

search_answers(cs, query, lat_lng, textsearch) ==
    IF placesearch_begin(cs, query, lat_lng, textsearch).done
    THEN {FetchError} ELSE SearchAnswers

\* the answers to the place details request of the current place
place_answers ==
    LET results == Take(IF pc = "ev_place" THEN futures[frame.f].ret ELSE frame.places, 5)
    IN  IF frame.i < Len(results)
        THEN details_answers(CS, results[frame.i + 1].place_id) ELSE {FetchError}

\* lines 67-73, 186-190 and 193-202: if not location_info, geocode address and
\* build the record of its first result; yields [ret, raised, cs]
fallback_geocoded(location_info, g, resp2) ==
    IF ~IsNone(g.raised) THEN [g EXCEPT !.ret = location_info]
    ELSE IF Truthy(g.ret) THEN construct_location_info(g.cs, g.ret[1], resp2)
    ELSE [g EXCEPT !.ret = location_info]

\* a fallback that does not look at what was found
fallback_always(cs, location_info, address, resp1, resp2) ==
    fallback_geocoded(location_info, geocode(cs, address, resp1), resp2)

fallback(cs, location_info, address, resp1, resp2) ==
    IF Truthy(location_info) THEN [ret |-> location_info, raised |-> None, cs |-> cs]
    ELSE fallback_geocoded(location_info, geocode(cs, address, resp1), resp2)

\* the answers to the geocode request of a fallback
fallback_geocode_answers(cs, location_info, address) ==
    IF Truthy(location_info) THEN {FetchError} ELSE geocode_answers(cs, address)

\* the answers to the place details request of a fallback
geocoded_answers(g) ==
    IF IsNone(g.raised) /\ Truthy(g.ret)
    THEN details_answers(g.cs, g.ret[1].place_id) ELSE {FetchError}

fallback_answers(cs, location_info, address, resp1) ==
    IF Truthy(location_info) THEN {FetchError}
    ELSE geocoded_answers(geocode(cs, address, resp1))

\* lines 76-95 and 205-224: the update of the entity with the record r.ret that
\* the fallbacks left, or the exception r.raised that left them; location_info
\* and score are what the resolver returned
update_entity(entity, location_info, score, r) ==
    LET done == [op EXCEPT !.location_info = location_info,
                           !.score = score,
                           !.any_result = frame.any_result \/ AnyResult(r.cs)]
    IN  /\ Commit(r.cs)
        /\ IF ~IsNone(r.raised)
           THEN Raise(done, r.raised)
           ELSE /\ op' = [done EXCEPT !.status = "returned"]
                /\ pc' = "idle"
                /\ frame' = NoFrame
                /\ normalized_location' =
                       [normalized_location EXCEPT ![entity.key] = Location(r.ret)]
                /\ location_index' = location_index \cup {entity.key}

\* lines 117-123 of get_event_location_info: g is what get_lat_lng returned
event_located(event, g) ==
    /\ Commit(g.cs)
    /\ IF ~IsNone(g.raised)
       THEN Raise(Start("update_event_location", event), g.raised)
       ELSE /\ op' = Start("update_event_location", event)
            /\ UNCHANGED <<normalized_location, location_index>>
            /\ frame' = [NoFrame EXCEPT !.entity = event,
                                        !.possible_queries = event_possible_queries(event),
                                        !.any_result = AnyResult(g.cs),
                                        !.lat_lng = g.ret]
            /\ pc' = IF IsNone(g.ret) THEN "ev_return" ELSE "ev_query"

\* update_event_location(event), lines 53-57, and get_event_location_info up
\* to its loop, lines 104-123
update_event_location(event, resp) ==
    /\ pc = "idle"
    /\ op.n < MaxUpdates
    /\ UNCHANGED <<called, sitevar, CONFIG_memcache, futures>>
    /\ IF ~has_location(event)
       THEN /\ op' = [Start("update_event_location", event) EXCEPT !.status = "returned"]
            /\ Commit(CS)
            /\ UNCHANGED <<pc, frame, normalized_location, location_index>>
       ELSE event_located(event, get_lat_lng(CS, event.location, resp))

\* the client state a started place search leaves
begun(b) == IF b.done THEN b.out.cs ELSE b.cs

\* lines 127-128: the two tasklets b1 and b2 have run to their yield
searches_begun(b1, b2) ==
    /\ futures' = <<Future(b1), Future(b2)>>
    /\ Commit(begun(b2))
    /\ pc' = "ev_place"
    /\ frame' = [frame EXCEPT !.f = 1, !.i = 0,
                              !.any_result = @ \/ AnyResult(begun(b2))]

\* line 128: the text search starts after the nearby search b1
textsearch_begin(query, b1) ==
    searches_begun(b1, placesearch_begin(begun(b1), query, frame.lat_lng, TRUE))

\* get_event_location_info, lines 125-128 and 141: the two searches of the
\* next query start, or the loop is over
get_event_location_info_query ==
    /\ pc = "ev_query"
    /\ UNCHANGED <<called, sitevar, CONFIG_memcache, op, normalized_location, location_index>>
    /\ IF frame.j < Len(frame.possible_queries)
       THEN textsearch_begin(frame.possible_queries[frame.j + 1],
                             placesearch_begin(CS, frame.possible_queries[frame.j + 1],
                                               frame.lat_lng, FALSE))
       ELSE /\ frame' = [frame EXCEPT !.ret = [location_info |-> frame.best_location_info,
                                               score |-> frame.best_score]]
            /\ pc' = "ev_return"
            /\ Commit(CS)
            /\ UNCHANGED futures

\* the tasklet of futures[n] has run on to its end: r is what it yields
search_completed(n, r) ==
    /\ futures' = [futures EXCEPT ![n] =
                       [state |-> "done", ret |-> r.ret, raised |-> r.raised]]
    /\ Commit(r.cs)
    /\ frame' = IF pc = "idle" THEN frame
                ELSE [frame EXCEPT !.any_result = @ \/ Truthy(r.ret)]

\* the urlfetch of a pending place search answers and the tasklet runs on
search_complete(n, resp) ==
    /\ futures[n].state = "pending"
    /\ search_completed(n, placesearch_resume(CS, futures[n], resp))
    /\ UNCHANGED <<called, sitevar, CONFIG_memcache, op, pc, normalized_location, location_index>>

\* a comparison that lets a later candidate with an equal score win
better_or_equal(score, best_score) == ~ScoreLess(score, best_score)

\* lines 137 and 271: elif score > best_score
better(score, best_score) == ScoreLess(best_score, score)

\* the candidates the pass in progress has scored so far, with the one of
\* record location_info, raw score raw and discounted score score added
Scored(location_info, raw, score) ==
    Append(frame.scored,
           [j |-> frame.j, f |-> frame.f, i |-> frame.i, location_info |-> location_info,
            raw |-> raw, score |-> score])

\* lines 135-139 and 269-273: the record c.ret of a candidate, its score raw
\* and its discounted score; returned is where the resolver returns to
candidate_scored(c, raw, score, returned) ==
    /\ Commit(c.cs)
    /\ UNCHANGED <<op, normalized_location, location_index>>
    /\ IF perfect(score)
       THEN /\ frame' = [frame EXCEPT !.ret = [location_info |-> c.ret, score |-> score],
                                      !.scored = Scored(c.ret, raw, score)]
            /\ pc' = returned
       ELSE IF better(score, frame.best_score)
       THEN /\ frame' = [frame EXCEPT !.best_location_info = c.ret,
                                      !.best_score = score, !.i = @ + 1,
                                      !.scored = Scored(c.ret, raw, score)]
            /\ pc' = pc
       ELSE /\ frame' = [frame EXCEPT !.i = @ + 1,
                                      !.scored = Scored(c.ret, raw, score)]
            /\ pc' = pc

\* lines 133-134 and 267-268: s is what the scorer returned or raised, k the
\* rank the score is discounted by
candidate_score(c, s, k, returned) ==
    IF ~IsNone(s.raised)
    THEN Raise(op, s.raised) /\ Commit(c.cs)
    ELSE candidate_scored(c, s.ret, Discount(s.ret, k), returned)

\* lines 132-133: c is what construct_location_info_async yielded
event_candidate(query, c) ==
    IF ~IsNone(c.raised)
    THEN Raise(op, c.raised) /\ Commit(c.cs)
    ELSE candidate_score(c, compute_event_location_score(query, c.ret),
                         frame.j + frame.i, "ev_return")

\* lines 130-131: fut.get_result()[:5] is results
event_results(fut, results, resp) ==
    IF ~IsNone(fut.raised)
    THEN Raise(op, fut.raised) /\ Commit(CS)
    ELSE IF frame.i >= Len(results)
    THEN /\ IF frame.f = 1
            THEN frame' = [frame EXCEPT !.f = 2, !.i = 0] /\ pc' = pc
            ELSE frame' = [frame EXCEPT !.j = @ + 1] /\ pc' = "ev_query"
         /\ Commit(CS)
         /\ UNCHANGED <<op, normalized_location, location_index>>
    ELSE event_candidate(frame.possible_queries[frame.j + 1],
                         construct_location_info(CS, results[frame.i + 1], resp))

\* get_event_location_info, lines 130-139: get_result() of the current
\* future, and one turn of the loop over its first five places
get_event_location_info_place(resp) ==
    /\ pc = "ev_place"
    /\ futures[frame.f].state = "done"
    /\ UNCHANGED <<called, sitevar, CONFIG_memcache, futures>>
    /\ event_results(futures[frame.f], Take(futures[frame.f].ret, 5), resp)

\* update_event_location, lines 57-95: the fallback, and the update of the event
update_event_location_end(resp1, resp2) ==
    /\ pc = "ev_return"
    /\ UNCHANGED <<called, sitevar, CONFIG_memcache, futures>>
    /\ update_entity(frame.entity, frame.ret.location_info, frame.ret.score,
                     fallback(CS, frame.ret.location_info, frame.entity.location,
                              resp1, resp2))

\* update_team_location(team), lines 160-165
update_team_location(team) ==
    /\ pc = "idle"
    /\ op.n < MaxUpdates
    /\ Commit(CS)
    /\ UNCHANGED <<called, sitevar, CONFIG_memcache, futures, normalized_location, location_index>>
    /\ IF ~has_location(team)
       THEN /\ op' = [Start("update_team_location", team) EXCEPT !.status = "returned"]
            /\ UNCHANGED <<pc, frame>>
       ELSE /\ op' = Start("update_team_location", team)
            /\ frame' = [NoFrame EXCEPT !.entity = team]
            /\ pc' = "tm_info"

\* lines 255-262 of get_team_location_info: g is what get_lat_lng returned
team_located(team, g) ==
    /\ Commit(g.cs)
    /\ IF ~IsNone(g.raised)
       THEN Raise(op, g.raised)
       ELSE /\ UNCHANGED <<op, normalized_location, location_index>>
            /\ frame' = [frame EXCEPT
                   !.possible_queries = team_possible_names(team),
                   !.lat_lng = g.ret, !.j = 0,
                   !.best_score = Score0, !.best_location_info = EmptyDict,
                   !.ret = [location_info |-> EmptyDict, score |-> Score0],
                   !.scored = <<>>,
                   !.any_result = @ \/ AnyResult(g.cs)]
            /\ pc' = IF IsNone(g.ret) THEN "tm_result" ELSE "tm_name"

\* get_team_location_info(team, textsearch) up to its loop, lines 234-262
get_team_location_info(resp) ==
    /\ pc = "tm_info"
    /\ UNCHANGED <<called, sitevar, CONFIG_memcache, futures>>
    /\ team_located(frame.entity, get_lat_lng(CS, frame.entity.location, resp))

\* line 264: r is what the place search of the name yielded
team_searched(r) ==
    /\ Commit(r.cs)
    /\ IF ~IsNone(r.raised)
       THEN Raise(op, r.raised)
       ELSE /\ UNCHANGED <<op, normalized_location, location_index>>
            /\ frame' = [frame EXCEPT !.places = r.ret, !.i = 0,
                                      !.any_result = @ \/ AnyResult(r.cs)]
            /\ pc' = "tm_place"

\* get_team_location_info, lines 263-264 and 275: the search of the next
\* name, or the loop is over
get_team_location_info_name(resp) ==
    /\ pc = "tm_name"
    /\ UNCHANGED <<called, sitevar, CONFIG_memcache, futures>>
    /\ IF frame.j < Len(frame.possible_queries)
       THEN team_searched(placesearch(CS, frame.possible_queries[frame.j + 1],
                                      frame.lat_lng, frame.textsearch, resp))
       ELSE /\ Commit(CS)
            /\ UNCHANGED <<op, normalized_location, location_index>>
            /\ frame' = [frame EXCEPT !.ret = [location_info |-> frame.best_location_info,
                                               score |-> frame.best_score]]
            /\ pc' = "tm_result"

\* lines 266-267: c is what construct_location_info_async yielded
team_candidate(name, c) ==
    IF ~IsNone(c.raised)
    THEN Raise(op, c.raised) /\ Commit(c.cs)
    ELSE candidate_score(c, compute_team_location_score(name, c.ret),
                         frame.i, "tm_result")

\* line 265: places[:5] is results
team_results(results, resp) ==
    IF frame.i >= Len(results)
    THEN /\ frame' = [frame EXCEPT !.j = @ + 1]
         /\ pc' = "tm_name"
         /\ Commit(CS)
         /\ UNCHANGED <<op, normalized_location, location_index>>
    ELSE team_candidate(frame.possible_queries[frame.j + 1],
                        construct_location_info(CS, results[frame.i + 1], resp))

\* get_team_location_info, lines 265-273: one turn of the loop over the
\* first five places
get_team_location_info_place(resp) ==
    /\ pc = "tm_place"
    /\ UNCHANGED <<called, sitevar, CONFIG_memcache, futures>>
    /\ team_results(Take(frame.places, 5), resp)

\* an update that always tries the text search
textsearch_always(score) == TRUE

\* line 166: if score < 0.7, the text pass is run
textsearch_needed(score) == ScoreLess(score, Score07)

\* update_team_location, lines 165-171: the nearby pass, then the text pass
\* when the nearby pass scored below 0.7
update_team_location_pass ==
    /\ pc = "tm_result"
    /\ Commit(CS)
    /\ UNCHANGED <<called, sitevar, CONFIG_memcache, futures, op, normalized_location,
                   location_index>>
    /\ IF ~frame.textsearch
       THEN /\ frame' = [frame EXCEPT !.location_info = frame.ret.location_info,
                                      !.score = frame.ret.score,
                                      !.textsearch = textsearch_needed(frame.ret.score)]
            /\ pc' = IF textsearch_needed(frame.ret.score) THEN "tm_info" ELSE "tm_return"
       ELSE /\ frame' = IF ScoreLess(frame.score, frame.ret.score)
                        THEN [frame EXCEPT !.location_info = frame.ret.location_info,
                                           !.score = frame.ret.score]
                        ELSE frame
            /\ pc' = "tm_return"

\* a fallback to city and country that does not look at what the fallback to
\* the location left
city_country_always(team, r1) ==
    IF ~IsNone(r1.raised)
    THEN update_entity(team, frame.location_info, frame.score, r1)
    ELSE \E resp3 \in geocode_answers(r1.cs, city_country(team)) :
         \E resp4 \in geocoded_answers(geocode(r1.cs, city_country(team), resp3)) :
             update_entity(team, frame.location_info, frame.score,
                           fallback_always(r1.cs, r1.ret, city_country(team),
                                           resp3, resp4))

\* lines 192-224: r1 is what the fallback to the location left; the fallback
\* to city and country, and the update of the team
city_country_fallback(team, r1) ==
    IF ~IsNone(r1.raised)
    THEN update_entity(team, frame.location_info, frame.score, r1)
    ELSE \E resp3 \in fallback_geocode_answers(r1.cs, r1.ret, city_country(team)) :
         \E resp4 \in fallback_answers(r1.cs, r1.ret, city_country(team), resp3) :
             update_entity(team, frame.location_info, frame.score,
                           fallback(r1.cs, r1.ret, city_country(team), resp3, resp4))

\* update_team_location, lines 173-224: the threshold, the two fallbacks, and
\* the update of the team
update_team_location_end(resp1, resp2) ==
    /\ pc = "tm_return"
    /\ UNCHANGED <<called, sitevar, CONFIG_memcache, futures>>
    /\ city_country_fallback(frame.entity,
           fallback(CS, trusted(frame.location_info, frame.score),
                    frame.entity.location, resp1, resp2))

Next ==
    \/ /\ pc = "idle"
       /\ \E n \in 1..Len(Events) :
              \E resp \in geocode_answers(CS, Events[n].location) :
                  update_event_location(Events[n], resp)
    \/ get_event_location_info_query
    \/ \E n \in 1..2 : \E resp \in SearchAnswers : search_complete(n, resp)
    \/ /\ pc = "ev_place"
       /\ futures[frame.f].state = "done"
       /\ \E resp \in place_answers : get_event_location_info_place(resp)
    \/ /\ pc = "ev_return"
       /\ \E resp1 \in fallback_geocode_answers(CS, frame.ret.location_info,
                                                frame.entity.location) :
              \E resp2 \in fallback_answers(CS, frame.ret.location_info,
                                            frame.entity.location, resp1) :
                  update_event_location_end(resp1, resp2)
    \/ \E n \in 1..Len(Teams) : update_team_location(Teams[n])
    \/ /\ pc = "tm_info"
       /\ \E resp \in geocode_answers(CS, frame.entity.location) :
              get_team_location_info(resp)
    \/ /\ pc = "tm_name"
       /\ \E resp \in (IF frame.j < Len(frame.possible_queries)
                       THEN search_answers(CS, frame.possible_queries[frame.j + 1],
                                           frame.lat_lng, frame.textsearch)
                       ELSE {FetchError}) :
              get_team_location_info_name(resp)
    \/ /\ pc = "tm_place"
       /\ \E resp \in place_answers : get_team_location_info_place(resp)
    \/ update_team_location_pass
    \/ /\ pc = "tm_return"
       /\ \E resp1 \in fallback_geocode_answers(
                           CS, trusted(frame.location_info, frame.score),
                           frame.entity.location) :
              \E resp2 \in fallback_answers(
                               CS, trusted(frame.location_info, frame.score),
                               frame.entity.location, resp1) :
                  update_team_location_end(resp1, resp2)

Spec == Init /\ [][Next]_vars

(***************************************************************************)
(* TimezoneResolver: get_timezone_id                                       *)
(***************************************************************************)

\* what the timezone service can answer: the failures of urlfetch, a body
\* with a timeZoneId, and a body without one
TimezoneAnswers ==
    {FetchError, HttpError, NotJson,
     Http200([status |-> "OK", timeZoneId |-> "America/New_York"]),
     Http200([status |-> "ZERO_RESULTS"])}

\* lines 524-537: urlfetch.fetch inside try, then the status code, json.loads
\* and the timeZoneId of the response, all after the try
timezone_of(resp) ==
    IF resp.error THEN [ret |-> None, raised |-> None]
    ELSE IF resp.status_code # 200 THEN [ret |-> None, raised |-> None]
    ELSE IF ~resp.valid_json THEN [ret |-> None, raised |-> "ValueError"]
    ELSE IF "timeZoneId" \notin DOMAIN resp.body THEN [ret |-> None, raised |-> None]
    ELSE [ret |-> resp.body.timeZoneId, raised |-> None]

\* lines 499-506: the coordinates given, or those of the geocoded location;
\* yields [ret, raised, cs], ret a pair or None
timezone_lat_lng(cs, location, lat_lng, resp) ==
    IF IsNone(lat_lng) THEN get_lat_lng(cs, location, resp)
    ELSE [ret |-> <<lat_lng.lat, lat_lng.lon>>, raised |-> None, cs |-> cs]

\* lines 508-523: the sitevar is read and the request built
timezone_request(g) ==
    [op |-> "timezone", key |-> IF IsNone(sitevar) THEN None ELSE sitevar.api_key,
     location |-> g.ret, timestamp |-> 0, sensor |-> "false"]

\* lines 501-502 and 508-537: g is what the coordinates came to
timezone_located(location, lat_lng, g, resp) ==
    IF ~IsNone(g.raised) \/ IsNone(g.ret)
    THEN /\ Commit(g.cs)
         /\ called' = [name |-> "get_timezone_id", args |-> <<Format(location), lat_lng>>,
                       done |-> TRUE, ret |-> None, raised |-> g.raised]
    ELSE /\ Commit([g.cs EXCEPT !.requests = Append(@, timezone_request(g)),
                                !.key_obtained = IF IsNone(sitevar) THEN @
                                                 ELSE @ \cup {"timezone"}])
         /\ called' = [name |-> "get_timezone_id", args |-> <<Format(location), lat_lng>>,
                       done |-> TRUE, ret |-> timezone_of(resp).ret,
                       raised |-> timezone_of(resp).raised]

\* get_timezone_id(location, lat_lng)
get_timezone_id(location, lat_lng, resp1, resp2) ==
    /\ pc = "idle"
    /\ UNCHANGED <<sitevar, CONFIG_memcache, normalized_location, location_index, op, pc,
                   frame, futures>>
    /\ timezone_located(location, lat_lng,
                        timezone_lat_lng(CS, location, lat_lng, resp1), resp2)

\* the free-text locations and the coordinates get_timezone_id is called with
TimezoneLocations == <<None, <<>>, <<"a">>, <<"b">>>>

TimezoneLatLngs == <<None, [lat |-> 1, lon |-> 2]>>

\* the answers to the geocode request of get_timezone_id
timezone_geocode_answers(location, lat_lng) ==
    IF IsNone(lat_lng) THEN geocode_answers(CS, location) ELSE {FetchError}

\* the answers to its timezone request
timezone_answers(g) ==
    IF IsNone(g.raised) /\ ~IsNone(g.ret) THEN TimezoneAnswers ELSE {FetchError}

\* get_timezone_id called directly, one call a step
TimezoneNext ==
    \/ \E l \in 1..Len(TimezoneLocations), c \in 1..Len(TimezoneLatLngs) :
           \E resp1 \in timezone_geocode_answers(TimezoneLocations[l], TimezoneLatLngs[c]) :
               \E resp2 \in timezone_answers(
                                 timezone_lat_lng(CS, TimezoneLocations[l],
                                                  TimezoneLatLngs[c], resp1)) :
                   get_timezone_id(TimezoneLocations[l], TimezoneLatLngs[c], resp1, resp2)

TimezoneSpec == Init /\ [][TimezoneNext]_vars

(***************************************************************************)
(* construct_location_info_async called directly, with place details whose *)
(* address components come in any order                                    *)
(***************************************************************************)

\* address components of a place details result listed at most
MaxComponents == 3

\* the address components the provider can list
Components ==
    <<[types |-> {"locality", "political"}, long_name |-> <<"c">>, short_name |-> <<"c">>],
      [types |-> {"administrative_area_level_1", "political"},
       long_name |-> <<"b", "b">>, short_name |-> <<"B">>],
      [types |-> {"country", "political"}, long_name |-> <<"c", "c">>, short_name |-> <<"C">>],
      [types |-> {"route"}, long_name |-> <<"a">>, short_name |-> <<"a">>]>>

\* some of the components in some order, none twice
ComponentLists ==
    LET ix == UNION {[1..n -> 1..Len(Components)] : n \in 0..MaxComponents}
    IN  {[n \in DOMAIN l |-> Components[l[n]]] :
             l \in {m \in ix : \A x, y \in DOMAIN m : x # y => m[x] # m[y]}}

\* what the place details service can answer
ComponentAnswers ==
    Failures \cup {Http200([status |-> "OK",
                            result |-> [formatted_address |-> <<"a", "b">>,
                                        address_components |-> l]]) :
                       l \in ComponentLists}

\* the answers to the place details request of the call
construct_answers(place_id) ==
    IF Len(place_details(CS, place_id, FetchError).cs.requests) > 0
    THEN ComponentAnswers ELSE {FetchError}

\* c is what construct_location_info_async(gmaps_result).get_result() came to
location_info_constructed(gmaps_result, c) ==
    /\ Commit(c.cs)
    /\ called' = [name |-> "construct_location_info_async",
                  args |-> <<gmaps_result.place_id>>, done |-> TRUE, ret |-> c.ret,
                  raised |-> c.raised]

construct_location_info_async(gmaps_result, resp) ==
    /\ pc = "idle"
    /\ UNCHANGED <<sitevar, CONFIG_memcache, normalized_location, location_index, op, pc,
                   frame, futures>>
    /\ location_info_constructed(gmaps_result,
                                 construct_location_info(CS, gmaps_result, resp))

BuilderNext ==
    \E n \in 1..Len(Places) :
        \E resp \in construct_answers(Places[n].place_id) :
            construct_location_info_async(Places[n], resp)

BuilderSpec == Init /\ [][BuilderNext]_vars

(***************************************************************************)
(* The functions without state, each applied to the arguments the initial  *)
(* state draws: get_similarity, the query generator of                     *)
(* get_event_location_info, compute_event_location_score                   *)
(***************************************************************************)

\* the longest string get_similarity is applied to
MaxLen == 3

\* the characters of those strings
SimilarityChars == {"a", "b", "c", " "}

Strings == UNION {[1..n -> SimilarityChars] : n \in 0..MaxLen}

\* venue and venue_address of the events the queries are generated for: no
\* venue or one; no address, or an address of one, two and three lines
Venues == <<None, <<"a">>>>

Addresses ==
    <<None, <<"a">>, <<"a", "\n", "b">>, <<"a", "\n", "b", "\n", "c">>,
      <<"b", "\n", "a", "\n", "a">>>>

\* the event whose candidates are scored
ScoredEvent ==
    [venue |-> <<"a", " ", "b">>, city |-> <<"c">>, state_prov |-> <<"b", "b">>,
     country |-> <<"c", "c">>, postalcode |-> <<"a", "b">>]

\* the queries its candidates are scored against: its venue, and a line of
\* its address
ScoredQueries == <<ScoredEvent.venue, <<"c">>>>

\* candidates: named as the venue of the event, exactly or up to case and
\* surrounding white space, or named otherwise; of each kind of type tags
ScoredNames == <<ScoredEvent.venue, <<"A", " ", "b", " ">>, <<"b">>>>

ScoredTypes ==
    <<{"point_of_interest", "establishment"}, {"premise"}, {"locality", "political"}>>

\* the record construct_location_info_async builds of a candidate: with place
\* details that list the event's city, state/province, country and postal
\* code, or without place details
ScoredInfo(name, types, detailed) ==
    LET place == [place_id |-> "pS", name |-> name, types |-> types,
                  geometry |-> [location |-> [lat |-> 1, lng |-> 1]]]
        details == [formatted_address |-> <<"a", ",", " ", "c">>,
                    address_components |->
                        <<Components[1], Components[2], Components[3],
                          [types |-> {"postal_code"}, long_name |-> <<"a", "b">>,
                           short_name |-> <<"a", "b">>]>>]
    IN  IF detailed
        THEN with_place_details(coarse_location_info(place), details)
        ELSE coarse_location_info(place)

\* the call of function name with arguments args, not yet made
Call(name, args) ==
    [name |-> name, args |-> args, done |-> FALSE, ret |-> None, raised |-> None]

PureInit ==
    /\ sitevar = None
    /\ CONFIG_memcache = FALSE
    /\ Fresh
    /\ \/ \E a, b \in Strings : called = Call("get_similarity", <<a, b>>)
       \/ \E v \in 1..Len(Venues), a \in 1..Len(Addresses) :
              called = Call("possible_queries", <<Venues[v], Addresses[a]>>)
       \/ \E q \in 1..Len(ScoredQueries), n \in 1..Len(ScoredNames),
             t \in 1..Len(ScoredTypes), detailed \in BOOLEAN :
              called = Call("compute_event_location_score",
                            <<ScoredQueries[q],
                              ScoredInfo(ScoredNames[n], ScoredTypes[t], detailed)>>)

\* the call returns ret, or raises
Returned(ret, raised) ==
    /\ called' = [called EXCEPT !.done = TRUE, !.ret = ret, !.raised = raised]
    /\ UNCHANGED <<sitevar, CONFIG_memcache, GOOGLE_API_KEY, memcache,
                   normalized_location, location_index, op, pc, frame, futures,
                   requests, calls, fetched, completed, key_obtained>>

get_similarity_call ==
    /\ called.name = "get_similarity"
    /\ ~called.done
    /\ Returned(get_similarity(called.args[1], called.args[2]), None)

possible_queries_call ==
    /\ called.name = "possible_queries"
    /\ ~called.done
    /\ Returned(event_possible_queries([venue |-> called.args[1],
                                        venue_address |-> called.args[2]]), None)

\* s is what compute_event_location_score returned or raised
scored(s) == Returned(s.ret, s.raised)

compute_event_location_score_call ==
    /\ called.name = "compute_event_location_score"
    /\ ~called.done
    /\ scored(compute_event_location_score(called.args[1], called.args[2]))

PureNext ==
    \/ get_similarity_call
    \/ possible_queries_call
    \/ compute_event_location_score_call

PureSpec == PureInit /\ [][PureNext]_vars

(***************************************************************************)
(* The event resolver over several queries                                 *)
(***************************************************************************)

\* the located event, with an address of three lines and no venue: its
\* queries are 'a a' and 'a'
QueryEvent ==
    [Events[2] EXCEPT !.venue = None,
                      !.venue_address = <<"c", "\n", "a", "\n", "a">>]

\* one update of QueryEvent by a fresh instance
QueryNext ==
    \/ /\ op = NoOp
       /\ \E resp \in geocode_answers(CS, QueryEvent.location) :
              update_event_location(QueryEvent, resp)
    \/ get_event_location_info_query
    \/ \E n \in 1..2 : \E resp \in SearchAnswers : search_complete(n, resp)
    \/ /\ pc = "ev_place"
       /\ futures[frame.f].state = "done"
       /\ \E resp \in place_answers : get_event_location_info_place(resp)
    \/ /\ pc = "ev_return"
       /\ \E resp1 \in fallback_geocode_answers(CS, frame.ret.location_info,
                                                frame.entity.location) :
              \E resp2 \in fallback_answers(CS, frame.ret.location_info,
                                            frame.entity.location, resp1) :
                  update_event_location_end(resp1, resp2)

QuerySpec == Init /\ [][QueryNext]_vars

(***************************************************************************)
(* Properties                                                              *)
(***************************************************************************)

SearchOps == {"nearbysearch", "textsearch"}

\* the entity of id key has a free-text location
Located(key) ==
    \/ \E n \in 1..Len(Events) : Events[n].key = key /\ Truthy(Events[n].location)
    \/ \E n \in 1..Len(Teams) : Teams[n].key = key /\ Truthy(Teams[n].location)

\* the last update is over
Finished == op.status \in {"returned", "raised"}

\* C1: an update of an entity with a location in which no place search and no
\* geocode returned a result ends by returning, never by raising; its
\* resolver returned the empty record with score 0, and the record it wrote
\* is the empty Location.
C1_NoResults ==
    (Finished /\ Located(op.key) /\ ~op.any_result)
        => /\ op.status = "returned"
           /\ op.location_info = EmptyDict
           /\ ScoreEq(op.score, Score0)
           /\ normalized_location[op.key] = Location(EmptyDict)
           /\ op.key \in location_index

\* a team update has ended with nothing found, after its geocode requests
\* were answered by failures
C1_Witness ==
    /\ op.status = "returned"
    /\ op.key = "frc1"
    /\ ~op.any_result
    /\ "frc1" \in location_index
    /\ \E k \in DOMAIN memcache : k[1] = "google_maps_geocode" /\ memcache[k] = <<>>

\* some place details call of the last step returned nothing
DetailsAbsent ==
    \E n \in 1..Len(calls) : calls[n].op = "place_details" /\ IsNone(calls[n].ret)

\* C2: an event update in which the place details of a candidate were absent
\* does not end with an exception.
C2_DetailsAbsent ==
    (op.name = "update_event_location" /\ DetailsAbsent) => op.status # "raised"

\* some candidate of the pass in progress has been scored exactly 1.0
ScoredPerfect ==
    ScoreEq(frame.best_score, Score1) \/ ScoreEq(frame.ret.score, Score1)

\* the candidate the loop is at
Candidate ==
    IF pc = "ev_place" THEN futures[frame.f].ret[frame.i + 1]
    ELSE frame.places[frame.i + 1]

\* the last step started a place search: it issued a request, or the call
\* returned without one
SearchBegun ==
    \/ \E n \in 1..Len(requests) : requests[n].op \in SearchOps
    \/ \E n \in 1..Len(calls) : calls[n].op \in SearchOps /\ ~calls[n].remote

\* C3: the step that scores a candidate exactly 1.0 leaves the loop with that
\* candidate and that score as the resolver's return value, and from then on
\* no step of the update starts a place search.
C3_PerfectReturns ==
    [][/\ ScoredPerfect' =>
              /\ pc' \in {"ev_return", "tm_result", "tm_return"}
              /\ ScoreEq(frame'.ret.score, Score1)
              /\ pc \in {"ev_place", "tm_place"} =>
                     frame'.ret.location_info["place_id"] = Candidate.place_id
       /\ ScoredPerfect => ~SearchBegun']_vars

\* the first name of a team scored 1.0 on its first result, with a result and
\* a name left
C3_Witness ==
    /\ pc = "tm_result"
    /\ ScoreEq(frame.ret.score, Score1)
    /\ frame.j + 1 < Len(frame.possible_queries)
    /\ frame.i + 1 < Len(frame.places)

\* the provider has answered a request with the parameters of the search
\* call c with the list the call returned
Fetched(c) ==
    \E f \in fetched :
        /\ f.op = c.op
        /\ f.text = encode_ascii_ignore(c.args[1])
        /\ f.location = c.args[2]
        /\ f.results = c.ret

\* C4: the list a place search returns is empty or is what the provider
\* answered to a request with the same search mode, query text and bias
\* coordinates.
C4_SameRequest ==
    \A n \in 1..Len(calls) :
        calls[n].op \in SearchOps => (calls[n].ret = <<>> \/ Fetched(calls[n]))

\* C5: a call whose parameters an earlier call of the same operation has
\* already completed with issues no remote request.
C5_CompletedIsCached ==
    \A n \in 1..Len(calls) : calls[n].completed_before => ~calls[n].remote

\* C6: a place search whose request was answered with zero results, a non-OK
\* status, a status code other than 200, or not at all, returns the empty list
\* and raises nothing.
C6_SearchSoftFailure ==
    \A n \in 1..Len(calls) :
        (calls[n].op \in SearchOps /\ calls[n].remote /\ calls[n].resp \in Failures)
            => (calls[n].ret = <<>> /\ IsNone(calls[n].raised))

\* a place search got a response with status code 500 and returned
C6_Witness ==
    \E n \in 1..Len(calls) :
        /\ calls[n].op \in SearchOps
        /\ calls[n].remote
        /\ calls[n].resp = HttpError
        /\ calls[n].ret = <<>>

\* the call c returned the "no results" value of its operation
NoResults(c) == IF c.op = "place_details" THEN IsNone(c.ret) ELSE c.ret = <<>>

\* C7 as stated: with no credential in the sitevar every client call returns
\* its "no results" value and raises nothing.
C7_NoCredentialNoResults ==
    IsNone(sitevar) =>
        \A n \in 1..Len(calls) : NoResults(calls[n]) /\ IsNone(calls[n].raised)

\* C7: with no credential in the sitevar no client call raises; place search
\* and place details return their "no results" value without a request;
\* geocode issues its request without a key.
C7_NoCredential ==
    IsNone(sitevar) =>
        /\ \A n \in 1..Len(calls) :
               /\ IsNone(calls[n].raised)
               /\ calls[n].op # "geocode" => (NoResults(calls[n]) /\ ~calls[n].remote)
        /\ \A n \in 1..Len(requests) :
               requests[n].op = "geocode" /\ IsNone(requests[n].key)

\* with no credential, a step geocoded an address from the provider's answer
\* and asked for the place details of the result
C7_Witness ==
    /\ IsNone(sitevar)
    /\ \E n \in 1..Len(calls) :
           calls[n].op = "geocode" /\ calls[n].remote /\ calls[n].ret # <<>>
    /\ \E n \in 1..Len(calls) : calls[n].op = "place_details"

C9_NoLocationNoOp ==
    [][/\ (op'.n = op.n + 1 /\ ~Located(op'.key)) =>
              /\ op'.status = "returned"
              /\ pc' = "idle"
              /\ calls' = <<>>
              /\ requests' = <<>>
              /\ UNCHANGED <<normalized_location, location_index, memcache>>
       /\ \A k \in Keys :
              ~Located(k) => (IsNone(normalized_location'[k]) /\ k \notin location_index')
      ]_vars

\* the update of the team without a location has returned, after an update
\* that filled the cache
C9_Witness ==
    /\ op.key = "frc0"
    /\ op.status = "returned"
    /\ op.n = 2
    /\ memcache # EmptyDict

\* the place ids of the search candidates
CandidateIds == {Places[n].place_id : n \in 1..Len(Places)}

\* the place ids geocoding finds for the team of id key
GeocodedIds(key) ==
    LET team == Teams[CHOOSE n \in 1..Len(Teams) : Teams[n].key = key]
    IN  {GeocodeResult(team.location).place_id,
         GeocodeResult(city_country(team)).place_id}

\* C10: a team update whose final score is below 0.7 writes no record of a
\* search candidate: it writes the record of a geocoded address or the empty
\* record.
C10_Threshold ==
    (/\ op.name = "update_team_location"
     /\ op.status = "returned"
     /\ Located(op.key)
     /\ ScoreLess(op.score, Score07))
        => /\ normalized_location[op.key].place_id \notin CandidateIds
           /\ \/ normalized_location[op.key] = Location(EmptyDict)
              \/ normalized_location[op.key].place_id \in GeocodedIds(op.key)

\* a team update found a candidate, scored it below 0.7 and wrote the record
\* of the geocoded location
C10_Witness ==
    /\ op.name = "update_team_location"
    /\ op.status = "returned"
    /\ Truthy(op.location_info)
    /\ ScoreLess(op.score, Score07)
    /\ normalized_location[op.key].place_id = "gB"

\* the geocode calls of a step
GeocodeCalls(cl) == {n \in 1..Len(cl) : cl[n].op = "geocode"}

\* the Location built from the geocode result g alone
Geocoded(record, g) ==
    /\ record.place_id = g.place_id
    /\ record.lat_lng = <<g.geometry.location.lat, g.geometry.location.lng>>
    /\ IsNone(record.name)

\* C11: the step that ends an event update geocodes the event's free-text
\* location exactly when the resolver returned the empty record, and geocodes
\* nothing else; when that geocode returns results, the Location written is
\* built from the first of them, and when the resolver returned a record, the
\* Location written is built from that record.
C11_EventFallback ==
    [][(pc = "ev_return" /\ pc' = "idle") =>
           /\ GeocodeCalls(calls') # {} <=> ~Truthy(frame.ret.location_info)
           /\ \A n \in GeocodeCalls(calls') :
                  /\ calls'[n].args = <<Format(frame.entity.location)>>
                  /\ Truthy(calls'[n].ret) =>
                         /\ op'.status = "returned"
                         /\ Geocoded(normalized_location'[frame.entity.key],
                                     calls'[n].ret[1])
           /\ Truthy(frame.ret.location_info) =>
                  normalized_location'[frame.entity.key] =
                      Location(frame.ret.location_info)
      ]_vars

\* an event update whose resolver found nothing has written the record of the
\* first of the two results of geocoding its location
C11_Witness ==
    /\ op.name = "update_event_location"
    /\ op.status = "returned"
    /\ ~Truthy(op.location_info)
    /\ \E n \in GeocodeCalls(calls) : Len(calls[n].ret) = 2
    /\ normalized_location[op.key].place_id = "gA"

\* C12: get_timezone_id never raises: whatever the geocode step and the
\* timezone request come to, it returns a timezone id or None.
C12_TimezoneNeverRaises ==
    (called.name = "get_timezone_id" /\ called.done) => IsNone(called.raised)

\* the address components of the place details in the built record r that
\* carry the type t
ComponentsOf(r, t) ==
    {n \in 1..Len(r["place_details"].address_components) :
         t \in r["place_details"].address_components[n].types}

\* C13: a record built with place details that list no locality component but
\* an administrative_area_level_1 component has its state/province as city;
\* one built with place details that list a locality component has the long
\* name of that component as city, wherever in the list it stands.
C13_CityFallback ==
    (called.name = "construct_location_info_async"
     /\ called.done
     /\ "place_details" \in DOMAIN called.ret) =>
        LET r == called.ret
            comps == r["place_details"].address_components
            locality == ComponentsOf(r, "locality")
            state == ComponentsOf(r, "administrative_area_level_1")
        IN  /\ (locality = {} /\ state # {}) =>
                   /\ "city" \in DOMAIN r
                   /\ r["city"] = r["state_prov"]
                   /\ \E n \in state : r["state_prov"] = comps[n].long_name
            /\ locality # {} =>
                   /\ "city" \in DOMAIN r
                   /\ \E n \in locality : r["city"] = comps[n].long_name

\* a record has been built from place details that list a state/province
\* between two other components and no locality
C13_Witness ==
    /\ called.name = "construct_location_info_async"
    /\ "place_details" \in DOMAIN called.ret
    /\ ComponentsOf(called.ret, "locality") = {}
    /\ ComponentsOf(called.ret, "administrative_area_level_1") = {2}
    /\ Len(called.ret["place_details"].address_components) = 3
    /\ called.ret["city"] = <<"b", "b">>

\* the call of the function name has returned
Called(name) == called.name = name /\ called.done /\ IsNone(called.raised)

\* C14: the queries generated for an event start with its venue when it has
\* one, and no query is in the list twice.
C14_QueriesDistinct ==
    Called("possible_queries") =>
        /\ Truthy(called.args[1]) =>
               (called.ret # <<>> /\ called.ret[1] = called.args[1])
        /\ \A x, y \in DOMAIN called.ret : x # y => called.ret[x] # called.ret[y]

\* C15: get_similarity(a, b) is get_similarity(b, a).
C15_Commutative ==
    Called("get_similarity") =>
        called.ret = get_similarity(called.args[2], called.args[1])

\* the words of s: what stands between its spaces
RECURSIVE Words(_, _)
Words(s, w) ==
    IF s = <<>> THEN (IF w = <<>> THEN <<>> ELSE <<w>>)
    ELSE IF Head(s) = " " THEN (IF w = <<>> THEN <<>> ELSE <<w>>) \o Words(Tail(s), <<>>)
    ELSE Words(Tail(s), Append(w, Head(s)))

\* b consists of the words of a in another order
Reordered(a, b) ==
    LET wa == Words(a, <<>>)
        wb == Words(b, <<>>)
    IN  /\ Len(wa) = Len(wb)
        /\ wa # wb
        /\ \E p \in [DOMAIN wa -> DOMAIN wa] :
               /\ \A x, y \in DOMAIN wa : x # y => p[x] # p[y]
               /\ \A x \in DOMAIN wa : wb[x] = wa[p[x]]

\* C16: when b consists of the tokens of a in another order,
\* get_similarity(a, b) is 1.0, as get_similarity(a, a) is.
C16_TokenOrder ==
    (Called("get_similarity") /\ Reordered(called.args[1], called.args[2])) =>
        /\ called.ret = <<1, 1>>
        /\ get_similarity(called.args[1], called.args[1]) = <<1, 1>>

\* get_similarity has returned 1.0 for "c a" and "a c"
C16_Witness ==
    /\ Called("get_similarity")
    /\ called.args = <<<<"c", " ", "a">>, <<"a", " ", "c">>>>
    /\ called.ret = <<1, 1>>

\* the record r carries the name, city, state/province, country and postal
\* code of the event
Matches(r, event) ==
    /\ {"city", "state_prov", "country", "postal_code"} \subseteq DOMAIN r
    /\ r["name"] = event.venue
    /\ r["city"] = event.city
    /\ r["state_prov"] = event.state_prov
    /\ r["country"] = event.country
    /\ r["postal_code"] = event.postalcode

\* C17 as stated: a record whose name, city, state/province, country and
\* postal code are those of the event is scored exactly 1.0.
C17_ExactMatch ==
    (called.name = "compute_event_location_score" /\ called.done
     /\ Matches(called.args[2], ScoredEvent)) =>
        (IsNone(called.raised) /\ ScoreEq(called.ret, Score1))

\* the type tags of the record r include point_of_interest or premise
Tagged(r) == {"point_of_interest", "premise"} \cap r["types"] # {}

\* C17: a record built with place details whose type tags include
\* point_of_interest or premise and whose name is the query, up to case and
\* surrounding white space, is scored exactly 1.0, whatever its city,
\* state/province, country and postal code; a record whose type tags include
\* neither is scored 0, whatever its fields.
C17_NamedAsQuery ==
    (called.name = "compute_event_location_score" /\ called.done) =>
        LET query == called.args[1]
            r == called.args[2]
        IN  /\ (/\ Tagged(r)
                /\ "formatted_address" \in DOMAIN r
                /\ Strip(Lower(r["name"])) = Strip(Lower(query))) =>
                   (IsNone(called.raised) /\ ScoreEq(called.ret, Score1))
            /\ ~Tagged(r) => (IsNone(called.raised) /\ ScoreEq(called.ret, Score0))

\* a premise named as the venue up to case and white space has been scored 1.0
\* against the venue
C17_Witness ==
    /\ Called("compute_event_location_score")
    /\ called.args[1] = ScoredEvent.venue
    /\ called.args[2]["name"] = <<"A", " ", "b", " ">>
    /\ called.args[2]["types"] = {"premise"}
    /\ ScoreEq(called.ret, Score1)

\* a resolver has returned to the update: frame.ret is what it returned and
\* frame.scored the candidates it scored
Resolved == pc \in {"ev_return", "tm_result"}

\* no candidate of the pass scored exactly 1.0 after the discount
NoPerfect == \A n \in DOMAIN frame.scored : ~perfect(frame.scored[n].score)

\* the resolver returned the record and the discounted score of candidate n
ReturnedCandidate(n) ==
    /\ ToString(frame.ret.location_info) = ToString(frame.scored[n].location_info)
    /\ frame.ret.score = frame.scored[n].score

\* candidate n has the highest discounted score, and is the first that has it
FirstBest(n) ==
    \A m \in DOMAIN frame.scored :
        /\ ~ScoreLess(frame.scored[n].score, frame.scored[m].score)
        /\ m < n => ScoreLess(frame.scored[m].score, frame.scored[n].score)

\* C18 as stated: when no candidate scored exactly 1.0, the resolver returns
\* the first of the candidates with the highest discounted score, and that
\* score, whatever the scores are.
C18_BestCandidate ==
    (Resolved /\ NoPerfect /\ frame.scored # <<>>) =>
        \E n \in DOMAIN frame.scored : FirstBest(n) /\ ReturnedCandidate(n)

\* C18, amended: when no candidate scored exactly 1.0 and some candidate
\* scored above 0, the resolver returns the first of the candidates with the
\* highest discounted score, and that score, and every earlier-ranked result
\* of the same query has a strictly lower raw score than the one returned;
\* when no candidate scored above 0, the resolver returns the empty record
\* and the score 0.
C18_BestPositive ==
    (Resolved /\ NoPerfect) =>
        IF \E n \in DOMAIN frame.scored : ScoreLess(Score0, frame.scored[n].score)
        THEN \E n \in DOMAIN frame.scored :
                 /\ FirstBest(n)
                 /\ ReturnedCandidate(n)
                 /\ \A m \in DOMAIN frame.scored :
                        (frame.scored[m].j = frame.scored[n].j
                             /\ frame.scored[m].i < frame.scored[n].i)
                            => ScoreLess(frame.scored[m].raw, frame.scored[n].raw)
        ELSE /\ frame.ret.location_info = EmptyDict
             /\ frame.ret.score = Score0

\* a pass has returned the earlier of two different candidates with the same
\* discounted score, after it had let a later-ranked result replace an
\* earlier-ranked one with a lower score
C18_Witness ==
    /\ Resolved /\ NoPerfect
    /\ \E l, m, n \in DOMAIN frame.scored :
           /\ l < m /\ m < n
           /\ frame.scored[l].j = frame.scored[m].j
           /\ ScoreLess(frame.scored[l].score, frame.scored[m].score)
           /\ ScoreLess(Score0, frame.scored[l].score)
           /\ ScoreEq(frame.scored[m].score, frame.scored[n].score)
           /\ frame.scored[m].location_info["place_id"]
                  # frame.scored[n].location_info["place_id"]
           /\ ReturnedCandidate(m)
           /\ ~ReturnedCandidate(n)

\* the record r is the empty record or one tagged point_of_interest or premise
EmptyOrTagged(r) == Truthy(r) => Tagged(r)

\* C19: in an event update, a candidate whose type tags include neither
\* point_of_interest nor premise scores 0, is never the running best, and is
\* never what the resolver returns to the update.
C19_UntaggedNeverReturned ==
    /\ (op.name = "update_event_location" /\ op.status = "running") =>
           /\ \A n \in DOMAIN frame.scored :
                  ~Tagged(frame.scored[n].location_info) =>
                      /\ ScoreEq(frame.scored[n].raw, Score0)
                      /\ ScoreEq(frame.scored[n].score, Score0)
           /\ EmptyOrTagged(frame.best_location_info)
           /\ EmptyOrTagged(frame.ret.location_info)
    /\ op.name = "update_event_location" => EmptyOrTagged(op.location_info)

\* the event resolver has scored an untagged first result 0 and returned the
\* tagged result ranked after it
C19_Witness ==
    /\ op.name = "update_event_location"
    /\ pc = "ev_return"
    /\ \E m, n \in DOMAIN frame.scored :
           /\ frame.scored[m].f = frame.scored[n].f
           /\ frame.scored[m].i < frame.scored[n].i
           /\ ~Tagged(frame.scored[m].location_info)
           /\ ScoreEq(frame.scored[m].score, Score0)
           /\ Tagged(frame.scored[n].location_info)
           /\ ReturnedCandidate(n)

\* the geocode calls of cl for the address
GeocodeCallsFor(cl, address) ==
    {n \in GeocodeCalls(cl) : cl[n].args = <<address>>}

\* the Location written is the one the fallbacks of a team update must leave:
\* record is what was written, cl the calls of the step, loc and cc the
\* geocode calls for the location and for city and country
FallbackRecord(record, accepted, cl, loc, cc) ==
    IF accepted THEN record = Location(frame.location_info)
    ELSE IF \E m \in loc : Truthy(cl[m].ret)
    THEN cc = {} /\ \A m \in loc : Geocoded(record, cl[m].ret[1])
    ELSE IF \E n \in cc : Truthy(cl[n].ret)
    THEN \A n \in cc : Geocoded(record, cl[n].ret[1])
    ELSE \A k \in DOMAIN record : IsNone(record[k])

\* the geocode calls of the step that ends a team update are in order
FallbackOrder(team, accepted, cl, loc, cc) ==
    /\ GeocodeCalls(cl) = loc \cup cc
    /\ Cardinality(loc) <= 1 /\ Cardinality(cc) <= 1
    /\ loc # {} <=> ~accepted
    /\ cc # {} <=> (~accepted /\ \A m \in loc : ~Truthy(cl[m].ret))
    /\ \A n \in cc : \E m \in loc : m < n

\* C20: the step that ends a team update geocodes the team's location exactly
\* when the update holds no candidate scored 0.7 or more, geocodes city and
\* country only after that geocode, and exactly when it returned nothing; the
\* Location written is the accepted candidate's, else the one built from the
\* first result for the location, else the one built from the first result for
\* city and country, else empty.
C20_FallbackOrder ==
    [][(pc = "tm_return" /\ pc' = "idle") =>
           LET team == frame.entity
               accepted == Truthy(frame.location_info) /\ ~ScoreLess(frame.score, Score07)
               loc == GeocodeCallsFor(calls', team.location)
               cc == GeocodeCallsFor(calls', city_country(team))
           IN  /\ FallbackOrder(team, accepted, calls', loc, cc)
               /\ op'.status = "returned" =>
                      FallbackRecord(normalized_location'[team.key], accepted,
                                     calls', loc, cc)
      ]_vars

\* a team update has geocoded the location, got nothing, geocoded city and
\* country, and written the record of the first result
C20_Witness ==
    /\ op.name = "update_team_location"
    /\ op.status = "returned"
    /\ \E m, n \in GeocodeCalls(calls) :
           /\ m < n
           /\ calls[m].args = <<Teams[2].location>> /\ ~Truthy(calls[m].ret)
           /\ calls[n].args = <<city_country(Teams[2])>> /\ Len(calls[n].ret) = 2
    /\ normalized_location[op.key].place_id = "gC"

\* the candidates of search f of the query in progress that have been scored
ScoredOf(f) ==
    SelectSeq(frame.scored, LAMBDA e : e.j = frame.j /\ e.f = f)

\* the candidates of search f scored so far are the first results of its
\* future, in rank order
ScoredInRankOrder(f) ==
    /\ ScoredOf(f) # <<>> => futures[f].state = "done"
    /\ \A n \in DOMAIN ScoredOf(f) :
           /\ ScoredOf(f)[n].i = n - 1
           /\ n <= Len(Take(futures[f].ret, 5))
           /\ ScoredOf(f)[n].location_info["place_id"] = futures[f].ret[n].place_id

\* what the two pending searches leave when the first to complete is the
\* nearby search (b) and when it is the text search (d), r1 and r2 being the
\* answers to the nearby and to the text request
CompletionsCommute(r1, r2) ==
    LET a == placesearch_resume(CS, futures[1], r1)
        b == placesearch_resume(a.cs, futures[2], r2)
        c == placesearch_resume(CS, futures[2], r2)
        d == placesearch_resume(c.cs, futures[1], r1)
    IN  /\ IsNone(a.raised) /\ IsNone(b.raised) /\ IsNone(c.raised) /\ IsNone(d.raised)
        /\ a.ret = d.ret
        /\ b.ret = c.ret
        /\ b.cs.memcache = d.cs.memcache
        /\ b.cs.GOOGLE_API_KEY = d.cs.GOOGLE_API_KEY
        /\ b.cs.fetched = d.cs.fetched

\* C21: while the event resolver reads the results of a query, both searches
\* of the query have been started; the candidates are scored from completed
\* searches only, in rank order, the nearby results before the text results,
\* and no text result before every nearby result; and when both searches are
\* in flight, what each returns and what they leave in the cache is the same
\* whichever completes first.
C21_CompletionOrder ==
    /\ (op.name = "update_event_location" /\ pc = "ev_place") =>
           /\ futures[1].state # "none" /\ futures[2].state # "none"
           /\ frame.f = 1 => ScoredOf(2) = <<>>
           /\ frame.f = 2 =>
                  /\ futures[1].state = "done"
                  /\ Len(ScoredOf(1)) = Len(Take(futures[1].ret, 5))
           /\ ScoredInRankOrder(1) /\ ScoredInRankOrder(2)
           /\ \A m, n \in DOMAIN frame.scored :
                  (m < n /\ frame.scored[m].j = frame.scored[n].j) =>
                      frame.scored[m].f <= frame.scored[n].f
    /\ (futures[1].state = "pending" /\ futures[2].state = "pending") =>
           \A r1, r2 \in SearchAnswers : CompletionsCommute(r1, r2)

\* in the first update the text search has completed before the nearby search,
\* both with results, and its results wait for the nearby results to be read
C21_Witness ==
    /\ op.n = 1
    /\ pc = "ev_place"
    /\ frame.f = 1 /\ frame.scored = <<>>
    /\ Len(calls) = 1 /\ calls[1].op = "nearbysearch" /\ calls[1].remote
    /\ futures[1].state = "done" /\ Truthy(futures[1].ret)
    /\ futures[2].state = "done" /\ Truthy(futures[2].ret)
    /\ futures[1].ret # futures[2].ret

\* the text search calls of a step
TextSearchCalls(cl) == {n \in 1..Len(cl) : cl[n].op = "textsearch"}

\* C22: in a team update, the step that receives the nearby pass keeps its
\* value and starts the text pass exactly when its score is below 0.7; the
\* step that receives the text pass takes its value exactly when its score is
\* strictly higher, so that the score kept is the larger of the two; the
\* searches of the update are text searches exactly in the text pass, which
\* only runs after a nearby pass that scored below 0.7; and the score the
\* update ends with is the one kept.
C22_TextPass ==
    [][/\ (pc = "tm_result" /\ pc' # "tm_result" /\ ~frame.textsearch) =>
              /\ frame'.score = frame.ret.score
              /\ ToString(frame'.location_info) = ToString(frame.ret.location_info)
              /\ frame'.textsearch <=> ScoreLess(frame.ret.score, Score07)
              /\ pc' = (IF ScoreLess(frame.ret.score, Score07) THEN "tm_info"
                        ELSE "tm_return")
       /\ (pc = "tm_result" /\ pc' # "tm_result" /\ frame.textsearch) =>
              /\ pc' = "tm_return"
              /\ ~ScoreLess(frame'.score, frame.score)
              /\ ~ScoreLess(frame'.score, frame.ret.score)
              /\ IF ScoreLess(frame.score, frame.ret.score)
                 THEN /\ frame'.score = frame.ret.score
                      /\ ToString(frame'.location_info)
                             = ToString(frame.ret.location_info)
                 ELSE /\ frame'.score = frame.score
                      /\ ToString(frame'.location_info) = ToString(frame.location_info)
       /\ (pc = "tm_name" /\ pc' # "tm_name") =>
              (TextSearchCalls(calls') # {} <=> (frame.textsearch /\ calls' # <<>>))
       /\ (pc \in {"tm_info", "tm_name", "tm_place", "tm_result"} /\ frame.textsearch) =>
              ScoreLess(frame.score, Score07)
       /\ (pc = "tm_return" /\ pc' = "idle") => op'.score = frame.score
      ]_vars

\* a text pass has returned a candidate with the score of the nearby pass's
\* candidate, and the update has kept the nearby pass's record, which differs
C22_Witness ==
    /\ op.name = "update_team_location"
    /\ pc = "tm_return"
    /\ frame.textsearch
    /\ ScoreLess(Score0, frame.score)
    /\ ScoreEq(frame.ret.score, frame.score)
    /\ "formatted_address" \in DOMAIN frame.location_info
    /\ "formatted_address" \notin DOMAIN frame.ret.location_info

\* candidate n of the pass is not the first result of a search of the first
\* query
Later(n) == frame.scored[n].j > 0 \/ frame.scored[n].i > 0

\* C23: in an event update, every candidate of a later query or at a later
\* rank has a discounted score strictly below 1; a candidate that scored 1 is
\* the first result of a search of the first query and the last candidate
\* scored; and a resolver that returned a score of 1 returned that candidate.
C23_PerfectFirstOnly ==
    op.name = "update_event_location" =>
        /\ \A n \in DOMAIN frame.scored :
               /\ Later(n) => ScoreLess(frame.scored[n].score, Score1)
               /\ perfect(frame.scored[n].score) =>
                      (~Later(n) /\ n = Len(frame.scored) /\ pc \in {"ev_return", "idle"})
        /\ (pc = "ev_return" /\ ScoreEq(frame.ret.score, Score1)) =>
               /\ frame.scored # <<>>
               /\ ~Later(Len(frame.scored))
               /\ ReturnedCandidate(Len(frame.scored))

\* the first result of the second query scored 1.0 before the discount and
\* 0.7 after it, became the running best, and is what the resolver returned
\* once the queries were over
C23_Witness ==
    /\ op.name = "update_event_location"
    /\ pc = "ev_return"
    /\ \E n \in DOMAIN frame.scored :
           /\ frame.scored[n].j = 1 /\ frame.scored[n].i = 0
           /\ ScoreEq(frame.scored[n].raw, Score1)
           /\ ScoreEq(frame.scored[n].score, Score07)
           /\ ReturnedCandidate(n)


====
